---- MODULE Spec2Model ----
(***************************************************************************)
(* A model of the technical-indicators extraction pipeline of              *)
(* technical_indicators_extractor.py: the strategy chain (HTTP requests,   *)
(* Selenium, mock data), the indicator parser, the per-ticker record, the  *)
(* batch loop of process_tickers_file and its backup / merge / write of    *)
(* the output table (specification Spec, and SpecFair for its progress);   *)
(* one call of the mock generator for an arbitrary ticker hash (SpecMock); *)
(* one call of the indicator parser on an arbitrary page (SpecParser); the *)
(* rate limiter of the API-backed price fetcher (SpecLimiter); and, of     *)
(* web_server.py, the /run endpoint with its background job (SpecWeb) and  *)
(* the sentiment cache over the cache of sentiment_analysis.py             *)
(* (SpecSentiment).                                                        *)
(*                                                                         *)
(* Numbers held in table cells are in tenths (55.3 is 553), so that the    *)
(* half-unit offset of the mock MACD signal stays an integer.              *)
(***************************************************************************)
EXTENDS Integers, Sequences, FiniteSets, TLC

VARIABLES
    pc,                      \* position inside process_tickers_file
    url_file,                \* the input table (URL.xlsx) as read_excel sees it
    out_file,                \* the output table on disk (tickers.xlsx)
    backup_file,             \* the timestamped backup copy on disk
    output_df,               \* the in-memory output_df
    results,                 \* the results list of the batch loop
    i,                       \* number of input rows the loop has taken
    attempt,                 \* GETs issued so far by the current _extract_with_requests
    current_header_profile,  \* self.current_header_profile
    page_cache,              \* self.page_cache: url -> page, "miss" when absent
    driver,                  \* self.driver: "None" or "alive"
    enable_selenium,         \* self.enable_selenium
    ret,                     \* "running", then the value process_tickers_file returns
    pre_file,                \* history: the output table as it was when the run began
    written,                 \* history: to_excel has written the output table
    backup_made,             \* history: shutil.copy2 has completed
    io_error,                \* history: copy2 or to_excel raised an I/O error
    conn_at,                 \* history: attempt whose GET raised ConnectionError first
    trace,                   \* history: per finished item, how its content was obtained
    sessions,                \* history: browser sessions started and not yet quit
    last_failure,            \* history: how the latest GET of the current item failed
    clock,                   \* rate limiter: the time, in seconds
    timestamps,              \* rate limiter: the queue of granted timestamps
    cooldown_until,          \* rate limiter: the cooldown deadline
    requests_per_minute,     \* rate limiter: the quota R
    in_acquire,              \* rate limiter: a caller is inside acquire()
    granted,                 \* history: the times of the latest grants, quota + 1 at most
    last_asked,              \* history: the deadline the latest impose_cooldown asked for
    hash_val,                \* mock generator: the hash of the ticker
    mock_out,                \* mock generator: the indicators returned
    mock_done,               \* mock generator: the call has returned
    parse_in,                \* parser: the tokens and pivot rows of the page handed in
    parse_out,               \* parser: the indicators returned
    parse_done,              \* parser: the call has returned
    job_status,              \* web server: job_status['status']
    web_pc,                  \* web server: per /run request, where it and its thread are
    minute,                  \* sentiment: the time, in minutes
    last_sentiment,          \* sentiment: the result cached in job_status, with its timestamp
    _sentiment_cache,        \* sentiment: the module cache, per ticker list
    sentiment_returned       \* history: what the latest get_cached_sentiment_for_tickers returned

extractorVars == <<pc, url_file, out_file, backup_file, output_df, results, i, attempt,
                   current_header_profile, page_cache, driver, enable_selenium, ret,
                   pre_file, written, backup_made, io_error, conn_at, trace, sessions,
                   last_failure>>

limiterVars == <<clock, timestamps, cooldown_until, requests_per_minute, in_acquire,
                 granted, last_asked>>

mockVars == <<hash_val, mock_out, mock_done>>

parserVars == <<parse_in, parse_out, parse_done>>

webVars == <<job_status, web_pc>>

sentimentVars == <<minute, last_sentiment, _sentiment_cache, sentiment_returned>>

vars == <<extractorVars, limiterVars, mockVars, parserVars, webVars, sentimentVars>>

(***************************************************************************)
(* Bounds of the model.                                                    *)
(***************************************************************************)
\* longest input table (rows of URL.xlsx) a run is given
MaxItems == 2

\* largest quota the rate limiter is configured with
MaxQuota == 2

\* the time, in seconds, up to which the rate limiter is followed
MaxTime == 125

\* the low seven decimal digits of the ticker hashes the mock generator is given
MaxHashLo == 299
MaxRequests == 3
MaxMinutes == 7

(***************************************************************************)
(* Cells.  A cell of a record or of a table is a string, a number or NaN   *)
(* (pandas' missing value).  The sentinel 'N/A' is an ordinary string.     *)
(***************************************************************************)
Str(s) == [k |-> "str", s |-> s, v |-> 0]
Num(n) == [k |-> "num", s |-> "", v |-> n]
NaN == [k |-> "nan", s |-> "", v |-> 0]
NA == Str("N/A")

IndicatorKeys ==
    {"Woodies_Pivot", "Woodies_S1", "Woodies_S2", "Woodies_R1", "Woodies_R2",
     "EMA20", "SMA50", "RSI_14", "MACD_value", "MACD_signal", "MACD_histogram",
     "Bollinger_upper", "Bollinger_middle", "Bollinger_lower", "Volume_daily",
     "ADX_14", "ATR_14"}

MetaKeys == {"Ticker", "source_url", "indicator_last_checked", "data_quality", "notes"}

\* dict.update: the keys of e overwrite or extend those of d
Update(d, e) ==
    [key \in (DOMAIN d) \cup (DOMAIN e) |-> IF key \in DOMAIN e THEN e[key] ELSE d[key]]

(***************************************************************************)
(* Inputs.  A ticker cell of URL.xlsx is a string, or empty: read_excel    *)
(* delivers an empty cell as the float nan, which has no encode().         *)
(***************************************************************************)
NanTicker == "nan"
Tickers == {"AAPL", "MSFT", NanTicker}
IsString(ticker) == ticker # NanTicker

Urls == {"u1", "u2"}

\* the rows an input table is made of
Items == {[Ticker |-> "AAPL", URL |-> "u1"],
          [Ticker |-> "MSFT", URL |-> "u2"],
          [Ticker |-> NanTicker, URL |-> "u2"]}

RECURSIVE SeqsUpTo(_, _)
SeqsUpTo(S, n) ==
    IF n = 0 THEN {<< >>}
    ELSE LET shorter == SeqsUpTo(S, n - 1)
         IN  shorter \cup {Append(s, x) : s \in {t \in shorter : Len(t) = n - 1}, x \in S}

\* URL.xlsx: with both required columns, or with the ticker column misnamed
UrlFiles ==
    {[columns |-> {"Ticker", "URL"}, rows |-> s] : s \in SeqsUpTo(Items, MaxItems)}
    \cup {[columns |-> {"Symbol", "URL"}, rows |-> << [Ticker |-> "AAPL", URL |-> "u1"] >>]}

(***************************************************************************)
(* Pages.  A page is what the regular expressions of the parser find in    *)
(* its text: per pattern group a token, and the rows of its pivot table.   *)
(* Token kinds: "absent" (no pattern matches), "num" (float() converts     *)
(* it), "bad" (matched, float() raises ValueError); for the volume also    *)
(* "K", "M", "B" (upper-case suffix) and "lower" (a lower-case suffix,     *)
(* which IGNORECASE lets match and endswith() then misses).                *)
(***************************************************************************)
Absent == [kind |-> "absent", v |-> 0]
Tok(kind, n) == [kind |-> kind, v |-> n]

TokenNames == {"RSI_14", "EMA20", "SMA50", "MACD_value", "Bollinger_upper",
               "Bollinger_lower", "Volume_daily", "ADX_14", "ATR_14"}

NoTokens == [t \in TokenNames |-> Absent]
NoPivots == [key \in {} |-> 0]

PageNames == {"blank", "rsi", "rsi_vol", "adx_pivots", "full"}

PageTokens(page) ==
    CASE page = "blank" -> NoTokens
      [] page = "rsi" -> [NoTokens EXCEPT !["RSI_14"] = Tok("num", 553)]
      [] page = "rsi_vol" ->
            [NoTokens EXCEPT !["RSI_14"] = Tok("num", 553),
                             !["Volume_daily"] = Tok("M", 25)]
      [] page = "adx_pivots" ->
            [NoTokens EXCEPT !["ADX_14"] = Tok("num", 250),
                             !["EMA20"] = Tok("bad", 0)]
      [] page = "full" ->
            [t \in TokenNames |->
                IF t = "Volume_daily" THEN Tok("num", 12000000) ELSE Tok("num", 1000)]

PagePivots(page) ==
    CASE page = "adx_pivots" -> [key \in {"Woodies_Pivot", "Woodies_S1"} |-> 1500]
      [] page = "full" ->
            [key \in {"Woodies_Pivot", "Woodies_S1", "Woodies_S2",
                      "Woodies_R1", "Woodies_R2"} |-> 1500]
      [] OTHER -> NoPivots

(***************************************************************************)
(* _extract_numeric_value: the float of the matched token, None (here      *)
(* "absent") when nothing matches or float() raises.                       *)
(***************************************************************************)
_extract_numeric_value(tok) ==
    IF tok.kind = "num" THEN Num(tok.v) ELSE NA

\* the suffix handling of the volume token; raises[1] is TRUE when float() raises
VolumeValue(tok) ==
    CASE tok.kind = "K" -> <<FALSE, Num(tok.v * 1000)>>
      [] tok.kind = "M" -> <<FALSE, Num(tok.v * 1000000)>>
      [] tok.kind = "B" -> <<FALSE, Num(tok.v * 1000000000)>>
      [] tok.kind = "num" -> <<FALSE, Num(tok.v)>>
      [] tok.kind = "absent" -> <<FALSE, NA>>
      [] OTHER -> <<TRUE, NA>>

\* the indicators the patterns ahead of the volume fill
BeforeVolume == {"RSI_14", "EMA20", "SMA50", "MACD_value", "Bollinger_upper",
                 "Bollinger_lower"}
\* the indicators the patterns after the volume fill
AfterVolume == {"ADX_14", "ATR_14"}

\* _extract_pivot_points: the labelled rows of the pivot table overwrite
_extract_pivot_points(pivots, indicators) ==
    [key \in DOMAIN indicators |->
        IF key \in DOMAIN pivots THEN Num(pivots[key])
        ELSE indicators[key]]

(***************************************************************************)
(* _extract_indicators_investing_com: every key starts as 'N/A'; the       *)
(* pattern groups run in source order inside one try block, so a raise of  *)
(* the volume conversion skips everything after it.                        *)
(***************************************************************************)
ExtractIndicators(toks, pivots) ==
    LET vol == VolumeValue(toks["Volume_daily"])
        first == [key \in IndicatorKeys |->
                    IF key \in BeforeVolume THEN _extract_numeric_value(toks[key])
                    ELSE NA]
        rest == [key \in IndicatorKeys |->
                    IF key = "Volume_daily" THEN vol[2]
                    ELSE IF key \in AfterVolume THEN _extract_numeric_value(toks[key])
                    ELSE first[key]]
    IN  IF vol[1] THEN first ELSE _extract_pivot_points(pivots, rest)

\* the parser on one of the pages the extractor is served
_extract_indicators_investing_com(page) ==
    ExtractIndicators(PageTokens(page), PagePivots(page))

(***************************************************************************)
(* _generate_mock_indicators.  hash_val is the first 8 hex digits of the   *)
(* MD5 of the ticker, a number up to 2^32 - 1; it is held as               *)
(* hi * 10^7 + lo so that no intermediate value leaves 32 bits.            *)
(***************************************************************************)
Md5Prefix(ticker) ==
    CASE ticker = "AAPL" -> [hi |-> 233, lo |-> 3140142]   \* 2333140142
      [] ticker = "MSFT" -> [hi |-> 295, lo |-> 3098220]   \* 2953098220

\* hash_val % m for m <= 10^7
HashMod(h, m) == (((h.hi % m) * (10000000 % m)) + (h.lo % m)) % m

\* the generator with one key forgotten
MockIndicatorsMissingKey(ticker) ==
    [key \in IndicatorKeys \ {"ATR_14"} |-> Num(0)]

\* the generator seeded from the extractor's rotation index instead of the ticker
MockIndicatorsStateful(ticker) ==
    [key \in IndicatorKeys |-> Num(10 * (100 + current_header_profile))]

\* a generator that gives every indicator the mock price
MockFlat(h) ==
    [key \in IndicatorKeys |-> Num(10 * (100 + HashMod(h, 500)))]

\* the indicators _generate_mock_indicators computes from hash_val
MockFromHash(h) ==
    LET mock_price == 100 + HashMod(h, 500)
    IN  [key \in IndicatorKeys |->
          CASE key = "Woodies_Pivot" -> Num(10 * (mock_price + HashMod(h, 20) - 10))
            [] key = "Woodies_S1" -> Num(10 * (mock_price - 15 - HashMod(h, 10)))
            [] key = "Woodies_S2" -> Num(10 * (mock_price - 25 - HashMod(h, 15)))
            [] key = "Woodies_R1" -> Num(10 * (mock_price + 15 + HashMod(h, 10)))
            [] key = "Woodies_R2" -> Num(10 * (mock_price + 25 + HashMod(h, 15)))
            [] key = "EMA20" -> Num(10 * (mock_price + HashMod(h, 10) - 5))
            [] key = "SMA50" -> Num(10 * (mock_price + HashMod(h, 12) - 6))
            [] key = "RSI_14" -> Num(10 * (30 + HashMod(h, 40)))
            [] key = "MACD_value" -> Num(10 * (HashMod(h, 20) - 10))
            [] key = "MACD_signal" -> Num(10 * HashMod(h, 15) - 75)
            [] key = "MACD_histogram" -> Num(10 * (HashMod(h, 8) - 4))
            [] key = "Bollinger_upper" -> Num(10 * (mock_price + 20 + HashMod(h, 10)))
            [] key = "Bollinger_middle" -> Num(10 * mock_price)
            [] key = "Bollinger_lower" -> Num(10 * (mock_price - 20 - HashMod(h, 10)))
            [] key = "Volume_daily" -> Num(10 * (HashMod(h, 10000000) + 1000000))
            [] key = "ADX_14" -> Num(10 * (20 + HashMod(h, 50)))
            [] key = "ATR_14" -> Num(10 * (1 + HashMod(h, 10)))]

_generate_mock_indicators(ticker) == MockFromHash(Md5Prefix(ticker))

(***************************************************************************)
(* extract_indicators_for_ticker, from the point where the strategy chain  *)
(* has delivered its content: soup is a page name, or "None" when both     *)
(* fetch strategies failed; branch names the branch of the if/else that    *)
(* received it ("requests", "selenium" or "mock").                         *)
(***************************************************************************)
TickerCell(ticker) == IF IsString(ticker) THEN Str(ticker) ELSE NaN

\* the run's datetime.now().isoformat()
Now == Str("t1")

InitialResult(ticker, url) ==
    [key \in MetaKeys |->
        CASE key = "Ticker" -> TickerCell(ticker)
          [] key = "source_url" -> Str(url)
          [] key = "indicator_last_checked" -> Now
          [] key = "data_quality" -> Str("fallback")
          [] key = "notes" -> Str("")]

\* sum(1 for v in indicators.values() if v != 'N/A')
MeaningfulData(indicators) ==
    Cardinality({key \in DOMAIN indicators : indicators[key] # NA})

\* the thresholds off by one
DataQualityOffByOne(meaningful_data) ==
    IF meaningful_data > 3 THEN "good"
    ELSE IF meaningful_data > 1 THEN "partial"
    ELSE "fallback"

\* the data_quality the count selects; 'fallback' is the initial value left in place
DataQuality(meaningful_data) ==
    IF meaningful_data >= 3 THEN "good"
    ELSE IF meaningful_data >= 1 THEN "partial"
    ELSE "fallback"

SeleniumNote == "Used Selenium fallback"
MockNote == "Mock data - PRODUCTION ISSUE: Network/DNS failure. Run production_debug.py for fixes."

\* ticker.encode() raises AttributeError on a ticker that is no string
MockRaises(ticker) == ~IsString(ticker)
EncodeError == "'float' object has no attribute 'encode'"

extract_indicators_for_ticker(ticker, url, soup, branch) ==
    LET result == InitialResult(ticker, url)
        indicators == IF branch = "mock" THEN _generate_mock_indicators(ticker)
                      ELSE _extract_indicators_investing_com(soup)
        quality == IF branch = "mock" THEN "mock"
                   ELSE DataQuality(MeaningfulData(indicators))
        notes == CASE branch = "mock" -> MockNote
                   [] branch = "selenium" -> SeleniumNote
                   [] OTHER -> ""
    IN  Update([result EXCEPT !["data_quality"] = Str(quality), !["notes"] = Str(notes)],
               indicators)

\* the record the except clause of the batch loop builds
FallbackResult(ticker, url, message) ==
    Update([InitialResult(ticker, url) EXCEPT
                !["notes"] = Str("Processing error: " \o message)],
           [key \in IndicatorKeys |-> NA])

\* the loop without its except clause taking effect: the failed item leaves no record
LoopBodyDropping(res, ticker, url, soup, branch) ==
    IF branch = "mock" /\ MockRaises(ticker)
    THEN res
    ELSE Append(res, extract_indicators_for_ticker(ticker, url, soup, branch))

\* the body of the batch loop: the results list after one item
LoopBody(res, ticker, url, soup, branch) ==
    IF branch = "mock" /\ MockRaises(ticker)
    THEN Append(res, FallbackResult(ticker, url, EncodeError))
    ELSE Append(res, extract_indicators_for_ticker(ticker, url, soup, branch))

(***************************************************************************)
(* Tables.  A DataFrame is its set of columns and its rows, each row a     *)
(* function from the columns to cells.  A file is a DataFrame and whether  *)
(* it exists.                                                              *)
(***************************************************************************)
EmptyFrame == [columns |-> {}, rows |-> << >>]
NoFile == [exists |-> FALSE, columns |-> {}, rows |-> << >>]
FileOf(df) == [exists |-> TRUE, columns |-> df.columns, rows |-> df.rows]
FrameOf(file) == [columns |-> file.columns, rows |-> file.rows]

\* pd.DataFrame(results)
DataFrameOf(res) ==
    [columns |-> IF res = << >> THEN {} ELSE DOMAIN res[1], rows |-> res]

\* DataFrame.empty
IsEmpty(df) == df.rows = << >> \/ df.columns = {}

\* the labels set_index('Ticker') makes the index of
IndexOf(df) == [n \in 1..Len(df.rows) |-> df.rows[n]["Ticker"]]
IsUnique(idx) == \A a, b \in DOMAIN idx : a # b => idx[a] # idx[b]

\* output_df[col] = results_df[col]: the column aligned on output_df's index
AlignedCell(oidx, ridx, rrows, n, col) ==
    IF ridx = oidx THEN rrows[n][col]
    ELSE IF \E m \in DOMAIN ridx : ridx[m] = oidx[n]
         THEN rrows[CHOOSE m \in DOMAIN ridx : ridx[m] = oidx[n]][col]
         ELSE NaN

\* the merge of process_tickers_file; ok is FALSE when pandas raises
MergeFrames(odf, rdf) ==
    IF ~IsEmpty(odf) /\ "Ticker" \in odf.columns
    THEN IF "Ticker" \notin rdf.columns
         THEN [ok |-> FALSE, df |-> odf]
         ELSE LET oidx == IndexOf(odf)
                  ridx == IndexOf(rdf)
                  cols == odf.columns \cup rdf.columns
              IN  IF ridx # oidx /\ ~IsUnique(ridx)
                  THEN [ok |-> FALSE, df |-> odf]
                  ELSE [ok |-> TRUE,
                        df |-> [columns |-> cols,
                                rows |-> [n \in 1..Len(odf.rows) |->
                                    [col \in cols |->
                                        IF col \in rdf.columns \ {"Ticker"}
                                        THEN AlignedCell(oidx, ridx, rdf.rows, n, col)
                                        ELSE odf.rows[n][col]]]]]
    ELSE [ok |-> TRUE, df |-> rdf]

\* results_df['data_quality'] of the summary raises KeyError without the column
SummaryRaises(rdf) == "data_quality" \notin rdf.columns

(***************************************************************************)
(* The output tables a run may find on disk.                               *)
(***************************************************************************)
\* a row of a table that holds prices only
FreshRow(ticker) ==
    [col \in {"Ticker", "Price"} |-> IF col = "Ticker" THEN Str(ticker) ELSE Num(1000)]

\* a row an earlier run has filled, as read_excel returns it
EarlierRow(ticker, url) ==
    Update(FreshRow(ticker),
           [key \in (MetaKeys \ {"Ticker"}) \cup IndicatorKeys |->
               CASE key = "source_url" -> Str(url)
                 [] key = "indicator_last_checked" -> Str("t0")
                 [] key = "data_quality" -> Str("good")
                 [] key = "notes" -> NaN
                 [] OTHER -> Num(500)])

TableAB ==
    [exists |-> TRUE,
     columns |-> {"Ticker", "Price"} \cup MetaKeys \cup IndicatorKeys,
     rows |-> << EarlierRow("AAPL", "u1"), EarlierRow("MSFT", "u2") >>]

TableA ==
    [exists |-> TRUE, columns |-> {"Ticker", "Price"}, rows |-> << FreshRow("AAPL") >>]

TableNoTicker ==
    [exists |-> TRUE, columns |-> {"Symbol", "Price"},
     rows |-> << [col \in {"Symbol", "Price"} |->
                    IF col = "Symbol" THEN Str("AAPL") ELSE Num(1000)] >>]

ExistingFiles == {NoFile, TableAB, TableA, TableNoTicker}

(***************************************************************************)
(* The parts of the state a specification leaves alone.                    *)
(***************************************************************************)
ExtractorIdle ==
    /\ pc = "idle"
    /\ url_file = [columns |-> {"Ticker", "URL"}, rows |-> << >>]
    /\ out_file = NoFile
    /\ backup_file = NoFile
    /\ output_df = EmptyFrame
    /\ results = << >>
    /\ i = 0
    /\ attempt = 0
    /\ current_header_profile = 0
    /\ page_cache = [u \in Urls |-> "miss"]
    /\ driver = "None"
    /\ enable_selenium = TRUE
    /\ ret = "running"
    /\ pre_file = NoFile
    /\ written = FALSE
    /\ backup_made = FALSE
    /\ io_error = FALSE
    /\ conn_at = 0
    /\ trace = << >>
    /\ sessions = 0
    /\ last_failure = "none"

LimiterIdle ==
    /\ clock = 0
    /\ timestamps = << >>
    /\ cooldown_until = 0
    /\ requests_per_minute = 1
    /\ in_acquire = FALSE
    /\ granted = << >>
    /\ last_asked = 0

MockIdle ==
    /\ hash_val = [hi |-> 0, lo |-> 0]
    /\ mock_out = [key \in IndicatorKeys |-> NA]
    /\ mock_done = FALSE

ParserIdle ==
    /\ parse_in = [toks |-> NoTokens, pivots |-> NoPivots]
    /\ parse_out = [key \in IndicatorKeys |-> NA]
    /\ parse_done = FALSE

WebIdle ==
    /\ job_status = "ready"
    /\ web_pc = << >>

\* the ticker lists the sentiment endpoints ask for
TickerSets == {{"AAPL"}, {"MSFT"}, {"AAPL", "MSFT"}}

\* job_status['last_sentiment'] and ['sentiment_timestamp'] while they are None
NoSentiment == [set |-> FALSE, tickers |-> {}, computed_at |-> 0, stamp |-> 0]

\* an absent entry of _sentiment_cache
NoEntry == [set |-> FALSE, timestamp |-> 0]

SentimentIdle ==
    /\ minute = 0
    /\ last_sentiment = NoSentiment
    /\ _sentiment_cache = [key \in TickerSets |-> NoEntry]
    /\ sentiment_returned = [set |-> FALSE, computed_at |-> 0, at |-> 0]

(***************************************************************************)
(* The extractor and one run of process_tickers_file.                      *)
(***************************************************************************)
max_retries == 3

\* _get_header_profiles: three Chrome, two Firefox and one Safari profile
header_profiles == << "chrome", "chrome", "chrome", "firefox", "firefox", "safari" >>

\* a rotation that stays where it is
HeadersStuck(index) == index

\* a rotation that runs past the end of the pool
HeadersUnwrapped(index) == index + 1

\* _get_headers: the rotation index after handing out one profile
_get_headers(index) == (index + 1) % Len(header_profiles)

\* what a GET may end in: a status code or an exception
HttpFailures == {"403", "429", "500", "ConnectionError", "Timeout", "Exception"}

Init ==
    /\ pc = "start"
    /\ url_file \in UrlFiles
    /\ out_file \in ExistingFiles
    /\ backup_file = NoFile
    /\ output_df = EmptyFrame
    /\ results = << >>
    /\ i = 0
    /\ attempt = 0
    /\ current_header_profile = 0
    /\ page_cache = [u \in Urls |-> "miss"]
    /\ driver = "None"
    /\ enable_selenium \in BOOLEAN
    /\ ret = "running"
    /\ pre_file = out_file
    /\ written = FALSE
    /\ backup_made = FALSE
    /\ io_error = FALSE
    /\ conn_at = 0
    /\ trace = << >>
    /\ sessions = 0
    /\ last_failure = "none"
    /\ LimiterIdle
    /\ MockIdle
    /\ ParserIdle
    /\ WebIdle
    /\ SentimentIdle

\* the except clause swallowing the error
ExceptReturnSwallowed == "True"

\* the value the except clause of process_tickers_file returns
ExceptReturn == "False"

\* leave the try block through the except clause
Raise ==
    /\ ret' = ExceptReturn
    /\ pc' = "finally"

\* a check that looks for the URL column only
UrlColumnMissing(columns) == "URL" \notin columns

\* the check of the required columns of the input table
RequiredColumnsMissing(columns) == "Ticker" \notin columns \/ "URL" \notin columns

\* pd.read_excel(url_file) and the check of the required columns
LoadUrlFile ==
    /\ pc = "start"
    /\ \E readable \in BOOLEAN :
         IF ~readable
         THEN Raise
         ELSE IF RequiredColumnsMissing(url_file.columns)
              THEN ret' = "False" /\ pc' = "finally"
              ELSE ret' = ret /\ pc' = "backup"
    /\ UNCHANGED <<url_file, out_file, backup_file, output_df, results, i, attempt,
                   current_header_profile, page_cache, driver, enable_selenium,
                   pre_file, written, backup_made, io_error, conn_at, trace,
                   sessions, last_failure>>
    /\ UNCHANGED <<limiterVars, mockVars, parserVars, webVars, sentimentVars>>

\* a copy that leaves nothing behind
CopyNothing(file) == NoFile

\* shutil.copy2(output_file, backup_file)
shutil_copy2(file) == file

\* the existing output table is copied to the backup and read, or a new one begun
BackupAndLoad ==
    /\ pc = "backup"
    /\ IF out_file.exists
       THEN \E outcome \in {"ok", "copy_raises", "read_raises"} :
              CASE outcome = "copy_raises" ->
                     /\ Raise
                     /\ io_error' = TRUE
                     /\ UNCHANGED <<backup_file, backup_made, output_df>>
                [] outcome = "read_raises" ->
                     /\ Raise
                     /\ backup_file' = shutil_copy2(out_file)
                     /\ backup_made' = TRUE
                     /\ UNCHANGED <<io_error, output_df>>
                [] outcome = "ok" ->
                     /\ backup_file' = shutil_copy2(out_file)
                     /\ backup_made' = TRUE
                     /\ output_df' = FrameOf(out_file)
                     /\ pc' = "loop"
                     /\ UNCHANGED <<io_error, ret>>
       ELSE /\ output_df' = EmptyFrame
            /\ pc' = "loop"
            /\ UNCHANGED <<backup_file, backup_made, io_error, ret>>
    /\ UNCHANGED <<url_file, out_file, results, i, attempt, current_header_profile,
                   page_cache, driver, enable_selenium, pre_file, written, conn_at,
                   trace, sessions, last_failure>>
    /\ UNCHANGED <<limiterVars, mockVars, parserVars, webVars, sentimentVars>>

\* the row the loop is working on
Row == url_file.rows[i]

\* the item is finished with this content: its record joins the results
FinishItem(soup, branch, via) ==
    /\ results' = LoopBody(results, Row.Ticker, Row.URL, soup, branch)
    /\ trace' = Append(trace, [branch |-> branch, soup |-> soup,
                               raised |-> branch = "mock" /\ MockRaises(Row.Ticker),
                               header |-> current_header_profile',
                               gets |-> attempt', via |-> via,
                               started |-> sessions' > sessions,
                               cause |-> IF branch = "mock" THEN last_failure
                                         ELSE "none"])
    /\ conn_at' = 0
    /\ last_failure' = "none"
    /\ pc' = "loop"

\* a lookup that never finds the page
CacheNeverHit(cache, url) == "miss"

\* the cache lookup at the head of _extract_with_requests
CachedPage(cache, url) == cache[url]

\* the loop takes the next row; _extract_with_requests answers from the cache
NextItem ==
    /\ pc = "loop"
    /\ i < Len(url_file.rows)
    /\ i' = i + 1
    /\ attempt' = 0
    /\ LET url == url_file.rows[i + 1].URL
           hit == CachedPage(page_cache, url)
       IN  IF hit # "miss"
           THEN /\ results' = LoopBody(results, url_file.rows[i + 1].Ticker, url,
                                       hit, "requests")
                /\ trace' = Append(trace, [branch |-> "requests", soup |-> hit,
                                           raised |-> FALSE,
                                           header |-> current_header_profile,
                                           gets |-> 0, via |-> "cache",
                                           started |-> FALSE, cause |-> "none"])
                /\ pc' = "loop"
           ELSE /\ pc' = "requests"
                /\ UNCHANGED <<results, trace>>
    /\ UNCHANGED <<url_file, out_file, backup_file, output_df,
                   current_header_profile, page_cache, driver, enable_selenium, ret,
                   pre_file, written, backup_made, io_error, conn_at, sessions,
                   last_failure>>
    /\ UNCHANGED <<limiterVars, mockVars, parserVars, webVars, sentimentVars>>

\* one pass of the retry loop of _extract_with_requests answered with status 200
HttpSuccess ==
    /\ pc = "requests"
    /\ current_header_profile' = _get_headers(current_header_profile)
    /\ \E page \in PageNames :
         /\ page_cache' = [page_cache EXCEPT ![Row.URL] = page]
         /\ attempt' = attempt + 1
         /\ sessions' = sessions
         /\ FinishItem(page, "requests", "http")
    /\ UNCHANGED <<url_file, out_file, backup_file, output_df, i, driver,
                   enable_selenium, ret, pre_file, written, backup_made, io_error>>
    /\ UNCHANGED <<limiterVars, mockVars, parserVars, webVars, sentimentVars>>

\* a retry loop that has no last pass
RetriesAlways(failure, n) == TRUE

\* whether the retry loop goes round again after a failure of this kind
RetriesAfter(failure, n) == n < max_retries - 1

\* the kind of a failure: an HTTP status, a network error, another exception
FailureClass(failure) ==
    CASE failure \in {"403", "429", "500"} -> "status"
      [] failure \in {"ConnectionError", "Timeout"} -> "network"
      [] OTHER -> "exception"

\* one pass of the retry loop that ends in an error status or an exception
HttpFailure ==
    /\ pc = "requests"
    /\ \E failure \in HttpFailures :
         /\ conn_at' = IF failure = "ConnectionError" /\ conn_at = 0
                       THEN attempt + 1 ELSE conn_at
         /\ last_failure' = FailureClass(failure)
         /\ IF RetriesAfter(failure, attempt)
            THEN pc' = "requests"
            ELSE IF failure = "403" /\ enable_selenium
                 THEN pc' = "selenium_403"
                 ELSE pc' = "selenium"
    /\ attempt' = attempt + 1
    /\ current_header_profile' = _get_headers(current_header_profile)
    /\ UNCHANGED <<url_file, out_file, backup_file, output_df, results, i, page_cache,
                   driver, enable_selenium, ret, pre_file, written, backup_made,
                   io_error, trace, sessions>>
    /\ UNCHANGED <<limiterVars, mockVars, parserVars, webVars, sentimentVars>>

\* a setup that starts Chrome whatever enable_selenium says
SetupIgnoringSwitch(starts) == IF starts THEN "alive" ELSE "None"

\* _setup_selenium_driver: a driver, or None when disabled or Chrome does not start
_setup_selenium_driver(starts) ==
    IF enable_selenium /\ starts THEN "alive" ELSE "None"

\* the reachability test the run has passed before it starts Chrome: neither
\* _setup_selenium_driver nor _extract_with_selenium makes one
ReachabilityChecked == FALSE

\* a driver reference taken for empty whatever it holds
DriverAlwaysEmpty(reference) == TRUE

\* `if not self.driver` at the head of _extract_with_selenium
DriverEmpty(reference) == reference = "None"

\* _extract_with_selenium: the content (or "None"), the driver and the cache it
\* leaves, and whether it started a browser session
_extract_with_selenium(url, starts, navigation) ==
    LET setup == DriverEmpty(driver)
        d == IF setup THEN _setup_selenium_driver(starts) ELSE driver
        created == setup /\ d # "None"
    IN  IF d = "None"
        THEN [soup |-> "None", driver |-> d, cache |-> page_cache,
              created |-> created]
        ELSE IF page_cache[url] # "miss"
        THEN [soup |-> page_cache[url], driver |-> d, cache |-> page_cache,
              created |-> created]
        ELSE IF navigation = "fails"
        THEN [soup |-> "None", driver |-> d, cache |-> page_cache,
              created |-> created]
        ELSE [soup |-> navigation, driver |-> d,
              cache |-> [page_cache EXCEPT ![url] = navigation],
              created |-> created]

\* the Selenium call _extract_with_requests makes after its third 403
SeleniumAfter403 ==
    /\ pc = "selenium_403"
    /\ current_header_profile' = current_header_profile
    /\ \E starts \in BOOLEAN, navigation \in PageNames \cup {"fails"} :
         LET r == _extract_with_selenium(Row.URL, starts, navigation)
         IN  /\ driver' = r.driver
             /\ sessions' = IF r.created THEN sessions + 1 ELSE sessions
             /\ page_cache' = r.cache
             /\ attempt' = attempt
             /\ IF r.soup # "None"
                THEN FinishItem(r.soup, "requests", "browser")
                ELSE /\ pc' = "selenium"
                     /\ UNCHANGED <<results, trace, conn_at, last_failure>>
    /\ UNCHANGED <<url_file, out_file, backup_file, output_df, i, enable_selenium,
                   ret, pre_file, written, backup_made, io_error>>
    /\ UNCHANGED <<limiterVars, mockVars, parserVars, webVars, sentimentVars>>

\* the else branch of extract_indicators_for_ticker: Selenium, then mock data
SeleniumOrMock ==
    /\ pc = "selenium"
    /\ current_header_profile' = current_header_profile
    /\ \E starts \in BOOLEAN, navigation \in PageNames \cup {"fails"} :
         LET r == _extract_with_selenium(Row.URL, starts, navigation)
         IN  /\ driver' = r.driver
             /\ sessions' = IF r.created THEN sessions + 1 ELSE sessions
             /\ page_cache' = r.cache
             /\ attempt' = attempt
             /\ IF r.soup # "None"
                THEN FinishItem(r.soup, "selenium", "browser")
                ELSE FinishItem("None", "mock", "none")
    /\ UNCHANGED <<url_file, out_file, backup_file, output_df, i, enable_selenium,
                   ret, pre_file, written, backup_made, io_error>>
    /\ UNCHANGED <<limiterVars, mockVars, parserVars, webVars, sentimentVars>>

\* a loop left once its first item is done
LoopLeftAfterFirst(n, rows) == n >= 1

\* the for loop over the rows of the URL table has no row left
LoopExhausted(n, rows) == n = Len(rows)

\* after the loop: the results become a DataFrame and are merged into output_df
Merge ==
    /\ pc = "loop"
    /\ LoopExhausted(i, url_file.rows)
    /\ LET merged == MergeFrames(output_df, DataFrameOf(results))
       IN  IF merged.ok
           THEN /\ output_df' = merged.df
                /\ pc' = "write"
                /\ ret' = ret
           ELSE /\ Raise
                /\ output_df' = output_df
    /\ UNCHANGED <<url_file, out_file, backup_file, results, i, attempt,
                   current_header_profile, page_cache, driver, enable_selenium,
                   pre_file, written, backup_made, io_error, conn_at, trace,
                   sessions, last_failure>>
    /\ UNCHANGED <<limiterVars, mockVars, parserVars, webVars, sentimentVars>>

\* output_df.to_excel(output_file), the summary and the return
Write ==
    /\ pc = "write"
    /\ \E writable \in BOOLEAN :
         IF writable
         THEN /\ out_file' = FileOf(output_df)
              /\ written' = TRUE
              /\ io_error' = io_error
              /\ IF SummaryRaises(DataFrameOf(results))
                 THEN Raise
                 ELSE ret' = "True" /\ pc' = "finally"
         ELSE /\ Raise
              /\ io_error' = TRUE
              /\ UNCHANGED <<out_file, written>>
    /\ UNCHANGED <<url_file, backup_file, output_df, results, i, attempt,
                   current_header_profile, page_cache, driver, enable_selenium,
                   pre_file, backup_made, conn_at, trace, sessions, last_failure>>
    /\ UNCHANGED <<limiterVars, mockVars, parserVars, webVars, sentimentVars>>

\* a KeyboardInterrupt while the run waits on the network or the browser: no
\* except clause of process_tickers_file catches it, the finally clause runs
Interrupt ==
    /\ pc \in {"requests", "selenium_403", "selenium"}
    /\ ret' = "KeyboardInterrupt"
    /\ pc' = "finally"
    /\ UNCHANGED <<url_file, out_file, backup_file, output_df, results, i, attempt,
                   current_header_profile, page_cache, driver, enable_selenium,
                   pre_file, written, backup_made, io_error, conn_at, trace,
                   sessions, last_failure>>
    /\ UNCHANGED <<limiterVars, mockVars, parserVars, webVars, sentimentVars>>

\* a cleanup that leaves the page cache as it is
CacheKept(cache) == cache

\* self.page_cache.clear()
CacheCleared(cache) == [u \in DOMAIN cache |-> "miss"]

\* cleanup, run by the finally clause
cleanup ==
    /\ pc = "finally"
    /\ sessions' = IF driver # "None" THEN sessions - 1 ELSE sessions
    /\ driver' = "None"
    /\ page_cache' = CacheCleared(page_cache)
    /\ pc' = "done"
    /\ UNCHANGED <<url_file, out_file, backup_file, output_df, results, i, attempt,
                   current_header_profile, enable_selenium, ret, pre_file, written,
                   backup_made, io_error, conn_at, trace, last_failure>>
    /\ UNCHANGED <<limiterVars, mockVars, parserVars, webVars, sentimentVars>>

\* main: the exit status of the command line
MainExit == IF ret = "True" THEN 0 ELSE 1

Next ==
    \/ LoadUrlFile
    \/ BackupAndLoad
    \/ NextItem
    \/ HttpSuccess
    \/ HttpFailure
    \/ SeleniumAfter403
    \/ SeleniumOrMock
    \/ Merge
    \/ Write
    \/ Interrupt
    \/ cleanup

Spec == Init /\ [][Next]_vars

\* a run that finds no output table on disk, on the rows of two of the items
InitFair ==
    /\ Init
    /\ out_file = NoFile
    /\ \A n \in 1..Len(url_file.rows) : url_file.rows[n].Ticker # "MSFT"

\* such a run with the interpreter going on to its next statement: every
\* sleep is finite, and every GET and every wait on the browser has a timeout
SpecFair == InitFair /\ [][Next]_vars /\ WF_vars(Next)

(***************************************************************************)
(* The rate limiter: acquire() admits at most requests_per_minute requests *)
(* per rolling window of 60 seconds, impose_cooldown(seconds) blocks every *)
(* acquire() until the deadline.  Time is in whole seconds.  acquire() is  *)
(* a loop of sleeps; each pass of the loop is one step, so that time may   *)
(* pass and a cooldown may be imposed between two passes.                  *)
(***************************************************************************)
WindowSeconds == 60

TWELVEDATA_COOLDOWN_SECONDS == 15

\* the values the quota may be configured with, invalid ones among them
ConfiguredQuotas == (0 - 1)..MaxQuota

\* a non-positive quota is raised to 1
ClampQuota(n) == IF n < 1 THEN 1 ELSE n

\* the seconds that pass between two steps of the caller
Delays == {20, 59}

\* the seconds impose_cooldown is called with
CooldownSeconds == {5, TWELVEDATA_COOLDOWN_SECONDS}

\* the queue without the timestamps at its front that have left the window
RECURSIVE DropExpired(_, _)
DropExpired(q, t) ==
    IF q # << >> /\ t - Head(q) >= WindowSeconds THEN DropExpired(Tail(q), t) ELSE q

\* an admission test that lets one request too many in
HasSlotOffByOne(q, quota) == Len(q) <= quota

\* the admission test of acquire(): the queue is shorter than the quota
HasSlot(q, quota) == Len(q) < quota

\* a deadline that the latest call overwrites
OverwrittenDeadline(existing, t, seconds) == t + seconds

\* cooldown_until = max(existing, now + seconds)
ExtendedDeadline(existing, t, seconds) ==
    IF existing > t + seconds THEN existing ELSE t + seconds

LimiterInit ==
    /\ clock = 0
    /\ timestamps = << >>
    /\ cooldown_until = 0
    /\ requests_per_minute \in {ClampQuota(n) : n \in ConfiguredQuotas}
    /\ in_acquire = FALSE
    /\ granted = << >>
    /\ last_asked = 0
    /\ ExtractorIdle
    /\ MockIdle
    /\ ParserIdle
    /\ WebIdle
    /\ SentimentIdle

\* a caller enters acquire()
AcquireCall ==
    /\ ~in_acquire
    /\ in_acquire' = TRUE
    /\ UNCHANGED <<clock, timestamps, cooldown_until, requests_per_minute, granted,
                   last_asked>>
    /\ UNCHANGED <<extractorVars, mockVars, parserVars, webVars, sentimentVars>>

\* a pass of acquire() inside the cooldown: sleep until the deadline
AcquireCooldownSleep ==
    /\ in_acquire
    /\ clock < cooldown_until
    /\ cooldown_until <= MaxTime
    /\ clock' = cooldown_until
    /\ UNCHANGED <<timestamps, cooldown_until, requests_per_minute, in_acquire,
                   granted, last_asked>>
    /\ UNCHANGED <<extractorVars, mockVars, parserVars, webVars, sentimentVars>>

\* the last n elements of a sequence
LastN(q, n) == IF Len(q) <= n THEN q ELSE SubSeq(q, Len(q) - n + 1, Len(q))

\* a pass of acquire() that finds a slot: push now() and return
AcquireGrant ==
    /\ in_acquire
    /\ clock >= cooldown_until
    /\ LET q == DropExpired(timestamps, clock)
       IN  /\ HasSlot(q, requests_per_minute)
           /\ timestamps' = Append(q, clock)
    /\ granted' = LastN(Append(granted, clock), requests_per_minute + 1)
    /\ in_acquire' = FALSE
    /\ UNCHANGED <<clock, cooldown_until, requests_per_minute, last_asked>>
    /\ UNCHANGED <<extractorVars, mockVars, parserVars, webVars, sentimentVars>>

\* a pass of acquire() that finds the window full: sleep until the oldest
\* timestamp leaves the window
AcquireWindowSleep ==
    /\ in_acquire
    /\ clock >= cooldown_until
    /\ LET q == DropExpired(timestamps, clock)
       IN  /\ ~HasSlot(q, requests_per_minute)
           /\ Head(q) + WindowSeconds <= MaxTime
           /\ timestamps' = q
           /\ clock' = Head(q) + WindowSeconds
    /\ UNCHANGED <<cooldown_until, requests_per_minute, in_acquire, granted,
                   last_asked>>
    /\ UNCHANGED <<extractorVars, mockVars, parserVars, webVars, sentimentVars>>

\* impose_cooldown(seconds), by the caller or by another signal
impose_cooldown ==
    /\ \E seconds \in CooldownSeconds :
         /\ clock + seconds <= MaxTime
         /\ cooldown_until' = ExtendedDeadline(cooldown_until, clock, seconds)
         /\ last_asked' = clock + seconds
    /\ UNCHANGED <<clock, timestamps, requests_per_minute, in_acquire, granted>>
    /\ UNCHANGED <<extractorVars, mockVars, parserVars, webVars, sentimentVars>>

\* time passes
Tick ==
    /\ \E d \in Delays :
         /\ clock + d <= MaxTime
         /\ clock' = clock + d
    /\ UNCHANGED <<timestamps, cooldown_until, requests_per_minute, in_acquire,
                   granted, last_asked>>
    /\ UNCHANGED <<extractorVars, mockVars, parserVars, webVars, sentimentVars>>

LimiterNext ==
    \/ AcquireCall
    \/ AcquireCooldownSleep
    \/ AcquireGrant
    \/ AcquireWindowSleep
    \/ impose_cooldown
    \/ Tick

SpecLimiter == LimiterInit /\ [][LimiterNext]_vars

(***************************************************************************)
(* One call of the mock generator, for any ticker: hash_val is any number  *)
(* the first eight hex digits of an MD5 digest can be.                     *)
(***************************************************************************)
\* hash values from 0 up, around the two tickers' and up to 2^32 - 1
HashValues ==
    {[hi |-> 0, lo |-> n] : n \in 0..MaxHashLo}
    \cup {[hi |-> 233, lo |-> 3140142 + n] : n \in 0..MaxHashLo}
    \cup {[hi |-> 429, lo |-> 4967295 - n] : n \in 0..MaxHashLo}

MockInit ==
    /\ hash_val \in HashValues
    /\ mock_out = [key \in IndicatorKeys |-> NA]
    /\ mock_done = FALSE
    /\ ExtractorIdle
    /\ LimiterIdle
    /\ ParserIdle
    /\ WebIdle
    /\ SentimentIdle

GenerateMock ==
    /\ ~mock_done
    /\ mock_out' = MockFromHash(hash_val)
    /\ mock_done' = TRUE
    /\ UNCHANGED <<hash_val, extractorVars, limiterVars, parserVars, webVars, sentimentVars>>

MockNext == GenerateMock

SpecMock == MockInit /\ [][MockNext]_vars

(***************************************************************************)
(* One call of _extract_indicators_investing_com on an arbitrary page: an  *)
(* RSI, a volume, an ADX and an ATR token of every kind the patterns can   *)
(* match, with and without a pivot table.                                  *)
(***************************************************************************)
ParserTokens ==
    {[NoTokens EXCEPT !["RSI_14"] = rsi, !["Volume_daily"] = volume,
                      !["ADX_14"] = adx, !["ATR_14"] = atr] :
        rsi \in {Absent, Tok("num", 553), Tok("bad", 0)},
        volume \in {Absent, Tok("num", 12000000), Tok("M", 25), Tok("lower", 25),
                    Tok("bad", 0)},
        adx \in {Absent, Tok("num", 250), Tok("bad", 0)},
        atr \in {Absent, Tok("num", 15)}}

ParserPivots == {NoPivots, [key \in {"Woodies_Pivot", "Woodies_S1"} |-> 1500]}

ParserInit ==
    /\ parse_in \in [toks : ParserTokens, pivots : ParserPivots]
    /\ parse_out = [key \in IndicatorKeys |-> NA]
    /\ parse_done = FALSE
    /\ ExtractorIdle
    /\ LimiterIdle
    /\ MockIdle
    /\ WebIdle
    /\ SentimentIdle

ParsePage ==
    /\ ~parse_done
    /\ parse_out' = ExtractIndicators(parse_in.toks, parse_in.pivots)
    /\ parse_done' = TRUE
    /\ UNCHANGED <<parse_in, extractorVars, limiterVars, mockVars, webVars, sentimentVars>>

ParserNext == ParsePage

SpecParser == ParserInit /\ [][ParserNext]_vars

(***************************************************************************)
(* web_server: the /run endpoint and the background job.  Each request is  *)
(* handled by run_job, which tests job_status['status'] and then starts a  *)
(* thread on run_stock_fetcher_async; the thread itself sets the status to *)
(* 'running' as its first statement and to 'completed' or 'error' as its   *)
(* last.  web_pc[r] is where request r and the thread it started are:      *)
(* "arrive", "checked" (past the test), "refused" (409), "spawned"         *)
(* (thread started, ahead of its first statement), "running" (in the job), *)
(* "completed", "error".  Handlers and threads interleave freely.          *)
(***************************************************************************)
Requests == 1..MaxRequests

\* the requests whose thread is executing run_stock_fetcher_async
Executing == {r \in DOMAIN web_pc : web_pc[r] \in {"spawned", "running"}}

WebInit ==
    /\ job_status = "ready"
    /\ web_pc = [r \in Requests |-> "arrive"]
    /\ ExtractorIdle
    /\ LimiterIdle
    /\ MockIdle
    /\ ParserIdle
    /\ SentimentIdle

\* run_job: the test of the status, answered 409 when a job is running
RunJobCheck(r) ==
    /\ web_pc[r] = "arrive"
    /\ web_pc' = [web_pc EXCEPT ![r] = IF job_status = "running" THEN "refused"
                                       ELSE "checked"]
    /\ UNCHANGED job_status
    /\ UNCHANGED <<extractorVars, limiterVars, mockVars, parserVars, sentimentVars>>

\* run_job: threading.Thread(target=run_stock_fetcher_async).start()
RunJobStart(r) ==
    /\ web_pc[r] = "checked"
    /\ web_pc' = [web_pc EXCEPT ![r] = "spawned"]
    /\ UNCHANGED job_status
    /\ UNCHANGED <<extractorVars, limiterVars, mockVars, parserVars, sentimentVars>>

\* run_stock_fetcher_async: job_status['status'] = 'running'
JobBegin(r) ==
    /\ web_pc[r] = "spawned"
    /\ web_pc' = [web_pc EXCEPT ![r] = "running"]
    /\ job_status' = "running"
    /\ UNCHANGED <<extractorVars, limiterVars, mockVars, parserVars, sentimentVars>>

\* run_stock_fetcher_async: the job returns, or raises into the except clause
JobEnd(r) ==
    /\ web_pc[r] = "running"
    /\ \E outcome \in {"completed", "error"} :
         /\ web_pc' = [web_pc EXCEPT ![r] = outcome]
         /\ job_status' = outcome
    /\ UNCHANGED <<extractorVars, limiterVars, mockVars, parserVars, sentimentVars>>

WebNext ==
    \E r \in Requests :
        \/ RunJobCheck(r)
        \/ RunJobStart(r)
        \/ JobBegin(r)
        \/ JobEnd(r)

SpecWeb == WebInit /\ [][WebNext]_vars

(***************************************************************************)
(* The two sentiment caches.  Time is in whole minutes.  A result is known *)
(* by the minute its analysis ran (computed_at).  The cache of the web     *)
(* server holds one result with the minute it was stored; the cache of     *)
(* sentiment_analysis holds one result per ticker list, stored in the      *)
(* minute it was computed.                                                 *)
(***************************************************************************)
ttl_minutes == 5
ttl_seconds == 300

\* get_cached_portfolio_sentiment: the entry of the key is there and young enough
ModuleCacheHit(cache, key, now) ==
    cache[key].set /\ (now - cache[key].timestamp) * 60 < ttl_seconds

\* get_cached_portfolio_sentiment: the minute the returned data was computed in,
\* and the cache it leaves (entries older than an hour are dropped after a miss)
get_cached_portfolio_sentiment(cache, key, now) ==
    IF ModuleCacheHit(cache, key, now)
    THEN [computed_at |-> cache[key].timestamp, cache |-> cache]
    ELSE LET stored == [cache EXCEPT ![key] = [set |-> TRUE, timestamp |-> now]]
         IN  [computed_at |-> now,
              cache |-> [k \in DOMAIN stored |->
                           IF stored[k].set /\ stored[k].timestamp < now - 60
                           THEN NoEntry ELSE stored[k]]]

\* analyze_portfolio_sentiment
analyze_portfolio_sentiment(cache, key, now) ==
    get_cached_portfolio_sentiment(cache, key, now)

\* get_cached_sentiment_for_tickers: the stored result is young enough and
\* covers the tickers asked for
WebCacheHit(tickers, now) ==
    /\ last_sentiment.set
    /\ now - last_sentiment.stamp < ttl_minutes
    /\ tickers \subseteq last_sentiment.tickers

SentimentInit ==
    /\ SentimentIdle
    /\ ExtractorIdle
    /\ LimiterIdle
    /\ MockIdle
    /\ ParserIdle
    /\ WebIdle

\* one call of get_cached_sentiment_for_tickers(tickers, ttl_minutes=5)
GetCachedSentiment(tickers) ==
    /\ IF WebCacheHit(tickers, minute)
       THEN /\ sentiment_returned' =
                    [set |-> TRUE, computed_at |-> last_sentiment.computed_at,
                     at |-> minute]
            /\ UNCHANGED <<last_sentiment, _sentiment_cache>>
       ELSE LET fetched == analyze_portfolio_sentiment(_sentiment_cache, tickers, minute)
            IN  /\ _sentiment_cache' = fetched.cache
                /\ last_sentiment' = [set |-> TRUE, tickers |-> tickers,
                                      computed_at |-> fetched.computed_at,
                                      stamp |-> minute]
                /\ sentiment_returned' =
                        [set |-> TRUE, computed_at |-> fetched.computed_at,
                         at |-> minute]
    /\ UNCHANGED minute
    /\ UNCHANGED <<extractorVars, limiterVars, mockVars, parserVars, webVars>>

\* the job of /run fetching the sentiment of the portfolio ahead of its run
PrefetchSentiment ==
    /\ LET fetched == analyze_portfolio_sentiment(_sentiment_cache, {"AAPL", "MSFT"},
                                                  minute)
       IN  /\ _sentiment_cache' = fetched.cache
           /\ last_sentiment' = [set |-> TRUE, tickers |-> {"AAPL", "MSFT"},
                                 computed_at |-> fetched.computed_at,
                                 stamp |-> minute]
    /\ UNCHANGED <<minute, sentiment_returned>>
    /\ UNCHANGED <<extractorVars, limiterVars, mockVars, parserVars, webVars>>

\* a minute passes
MinutePasses ==
    /\ minute < MaxMinutes
    /\ minute' = minute + 1
    /\ UNCHANGED <<last_sentiment, _sentiment_cache, sentiment_returned>>
    /\ UNCHANGED <<extractorVars, limiterVars, mockVars, parserVars, webVars>>

SentimentNext ==
    \/ \E tickers \in TickerSets : GetCachedSentiment(tickers)
    \/ PrefetchSentiment
    \/ MinutePasses

SpecSentiment == SentimentInit /\ [][SentimentNext]_vars

(***************************************************************************)
(* Properties.                                                             *)
(***************************************************************************)
Succeeded == pc = "done" /\ ret = "True"

\* the tickers the batch has a record for
BatchTickers == {results[n]["Ticker"] : n \in 1..Len(results)}

\* the rows of the written table that carry this ticker
RowsOf(file, ticker) == {n \in 1..Len(file.rows) : file.rows[n]["Ticker"] = ticker}

\* row old survives in the file, cell by cell, on the columns it had
Survives(file, old) ==
    \E n \in 1..Len(file.rows) :
        \A col \in DOMAIN old : col \in DOMAIN file.rows[n] /\ file.rows[n][col] = old[col]

\* C1: after a successful run against a table keyed by ticker, a row whose
\* ticker the batch has no record for is exactly as it was, and a row the
\* batch has a record for differs from its old state only in the columns of
\* that record.
MergePreservesUntouched ==
    (Succeeded /\ pre_file.exists /\ "Ticker" \in pre_file.columns) =>
        \A n \in 1..Len(pre_file.rows) :
            LET old == pre_file.rows[n]
            IN  IF old["Ticker"] \in BatchTickers
                THEN \E m \in RowsOf(out_file, old["Ticker"]) :
                        \A col \in DOMAIN old :
                            col \notin DOMAIN results[1] => out_file.rows[m][col] = old[col]
                ELSE Survives(out_file, old)

\* C2: after a successful run against an existing non-empty table, every
\* ticker with a record in the batch has a row in the written table.
UpsertAppendsNewKeys ==
    (Succeeded /\ pre_file.exists /\ pre_file.rows # << >>) =>
        \A n \in 1..Len(results) : RowsOf(out_file, results[n]["Ticker"]) # {}

\* C3: once the backup copy is made it holds the table as it was before the
\* batch and keeps holding it, and the table is never written in a run that
\* found it on disk unless that backup has been made.
BackupBeforeWrite ==
    /\ backup_made => backup_file = pre_file
    /\ (written /\ pre_file.exists) => backup_made

\* C3 witness: a run that found a table, wrote it and then failed, its backup in place
BackupSurvivesFailure ==
    pc = "done" /\ ret = "False" /\ written /\ pre_file.exists /\ backup_file = pre_file

\* the loop has taken every row of the input
LoopFinished == pc = "write" \/ (pc = "loop" /\ i = Len(url_file.rows))

\* C4: the loop leaves one record per input row, in input order; the record
\* of a row whose processing raised is the 'fallback' record carrying the
\* exception message, and every other record is the one its own ticker, URL
\* and fetched content determine.
BatchResilience ==
    /\ pc = "loop" => Len(results) = i
    /\ LoopFinished => Len(results) = Len(url_file.rows)
    /\ \A n \in 1..Len(results) :
          LET row == url_file.rows[n]
          IN  /\ results[n]["Ticker"] = TickerCell(row.Ticker)
              /\ results[n]["source_url"] = Str(row.URL)
              /\ IF trace[n].raised
                 THEN /\ results[n]["data_quality"] = Str("fallback")
                      /\ results[n]["notes"] = Str("Processing error: " \o EncodeError)
                      /\ \A key \in IndicatorKeys : results[n][key] = NA
                 ELSE results[n] = extract_indicators_for_ticker(
                                      row.Ticker, row.URL, trace[n].soup, trace[n].branch)

\* C4 witness: the first of two rows raised, the second was processed as usual
FailedItemThenGoodItem ==
    /\ pc = "write"
    /\ Len(results) = 2
    /\ trace[1].raised
    /\ ~trace[2].raised
    /\ results[2]["data_quality"] = Str("good")

\* C5: every record of the results list has all 17 indicator keys, each a
\* number or the 'N/A' sentinel.
AllFieldsPresent ==
    \A n \in 1..Len(results) :
        /\ IndicatorKeys \subseteq DOMAIN results[n]
        /\ \A key \in IndicatorKeys : results[n][key].k = "num" \/ results[n][key] = NA

\* C5 witness: a fallback record of a failed item beside a record fetched by Selenium
FallbackAndSeleniumRecords ==
    /\ Len(results) = 2
    /\ trace[1].raised
    /\ results[2]["notes"] = Str(SeleniumNote)

\* the records built from fetched content
Fetched == {n \in 1..Len(results) : trace[n].branch \in {"requests", "selenium"}}

\* the number of indicators of a record that are not the sentinel
Matches(record) == Cardinality({key \in IndicatorKeys : record[key] # NA})

\* C6: a record built from fetched content with at least 3 indicators found
\* is 'good' or 'excellent', one with exactly 1 or 2 is 'partial'.
QualityFromMatchCount ==
    \A n \in Fetched :
        /\ Matches(results[n]) >= 3 =>
              results[n]["data_quality"] \in {Str("good"), Str("excellent")}
        /\ Matches(results[n]) \in {1, 2} => results[n]["data_quality"] = Str("partial")

\* C6 witness: a record with exactly 3 indicators beside one with exactly 1
ThreeMatchesAndOneMatch ==
    \E a, b \in Fetched : Matches(results[a]) = 3 /\ Matches(results[b]) = 1

\* C7: a record built from fetched content in which no indicator was found
\* carries mock data and the quality 'mock'.
ZeroMatchesEscalateToMock ==
    \A n \in Fetched :
        Matches(results[n]) = 0 => results[n]["data_quality"] = Str("mock")

\* the records that carry mock data
Mocked == {n \in 1..Len(results) : results[n]["data_quality"] = Str("mock")}

NoRetryAfterConnectionError ==
    conn_at # 0 => attempt = conn_at

\* C10: a run in which the backup copy or the final write raised an I/O
\* error never returns True; it returns False and main exits with status 1.
PersistenceFailureSurfaced ==
    io_error => (ret # "True" /\ (pc = "done" => (ret = "False" /\ MainExit = 1)))

\* C10 witness: the write failed after the backup was made, and the run has returned
WriteFailedRunReturned ==
    pc = "done" /\ io_error /\ backup_made /\ ~written

\* the network has not been touched: no GET issued, no browser session started
NoNetworkActivity ==
    /\ current_header_profile = 0
    /\ attempt = 0
    /\ trace = << >>
    /\ sessions = 0
    /\ driver = "None"
    /\ \A u \in Urls : page_cache[u] = "miss"

ViaBrowser(n) ==
    \/ trace[n].via = "browser"
    \/ /\ trace[n].via = "cache"
       /\ \E m \in 1..(n - 1) :
             /\ results[m]["source_url"] = results[n]["source_url"]
             /\ trace[m].via = "browser"

\* C12: every record whose content was rendered by the browser names the
\* Selenium fallback in its notes, also when the browser was reached after
\* three 403 responses and when the content came back from the page cache.
BrowserPathInNotes ==
    \A n \in 1..Len(results) :
        ViaBrowser(n) => results[n]["notes"] = Str(SeleniumNote)

\* C13: every record built from mock data is tagged 'mock', and the notes of
\* a record mocked after an HTTP error status differ from the notes of a
\* record mocked after a network error.
MockNotesNameCause ==
    /\ \A n \in 1..Len(results) :
          (trace[n].branch = "mock" /\ ~trace[n].raised) =>
              results[n]["data_quality"] = Str("mock")
    /\ \A a, b \in Mocked :
          (trace[a].cause = "status" /\ trace[b].cause = "network") =>
              results[a]["notes"] # results[b]["notes"]

\* C14: a browser session is started, and a page rendered, only in an item
\* whose three GETs have all failed and only with enable_selenium set; with
\* enable_selenium unset there is never a driver, and an item whose GETs
\* have failed gets mock data.
BrowserOnlyAfterHttpFailure ==
    /\ pc \in {"selenium_403", "selenium"} => attempt = max_retries
    /\ (driver # "None" \/ sessions > 0) => enable_selenium
    /\ \A n \in 1..Len(trace) :
          /\ (trace[n].via = "browser" \/ trace[n].started) =>
                (enable_selenium /\ trace[n].gets = max_retries)
          /\ (~enable_selenium /\ trace[n].via \notin {"http", "cache"}) =>
                (trace[n].branch = "mock" /\ trace[n].gets = max_retries)

\* C14 witness: Chrome did not start for the first item, which was mocked;
\* it started for the second, whose page it rendered
MockThenBrowser ==
    /\ Len(trace) = 2
    /\ trace[1].branch = "mock"
    /\ trace[2].via = "browser"
    /\ trace[2].started

\* C15: once an item has fetched the page of a URL, by GET or by the browser,
\* a later item with the same URL gets that page from the cache without a
\* GET and without the browser; the cache answers only for a URL fetched
\* before, a fetch is only ever under way for a URL not in the cache, and the
\* cache is empty when the run has ended.
NoRefetchWithinBatch ==
    /\ \A n \in 1..Len(trace) : \A m \in 1..(n - 1) :
          (results[m]["source_url"] = results[n]["source_url"]
             /\ trace[m].via \in {"http", "browser", "cache"}) =>
              /\ trace[n].via = "cache"
              /\ trace[n].soup = trace[m].soup
              /\ trace[n].gets = 0
              /\ trace[n].header = trace[n - 1].header
              /\ ~trace[n].started
    /\ \A n \in 1..Len(trace) :
          trace[n].via = "cache" =>
              \E m \in 1..(n - 1) :
                  /\ results[m]["source_url"] = results[n]["source_url"]
                  /\ trace[m].via \in {"http", "browser"}
    /\ pc \in {"requests", "selenium_403", "selenium"} => page_cache[Row.URL] = "miss"
    /\ pc = "done" => \A u \in Urls : page_cache[u] = "miss"

\* C15 witness: a finished run whose second item was answered from the cache
SecondItemFromCache ==
    pc = "done" /\ Len(trace) = 2 /\ trace[2].via = "cache" /\ trace[1].via = "browser"

TickerUniqueRowKey ==
    Succeeded => IsUnique(IndexOf(FrameOf(out_file)))

\* C18: any requests_per_minute + 1 grants in a row span at least 60
\* seconds, so that no window of 60 seconds, open at its older end, holds
\* more grants than the quota.
AdmissionBound ==
    Len(granted) > requests_per_minute =>
        granted[Len(granted)] - granted[Len(granted) - requests_per_minute] >= WindowSeconds

\* C18 witness: the quota of two was used up, and the next grant came
\* exactly when the oldest one left the window
GrantWhenOldestLeaves ==
    /\ requests_per_minute > 1
    /\ Len(granted) > requests_per_minute
    /\ granted[Len(granted)] - granted[Len(granted) - requests_per_minute] = WindowSeconds

\* C19: no step moves the cooldown deadline backwards.
CooldownMonotonic == [][cooldown_until' >= cooldown_until]_vars

\* C19 witness: the latest impose_cooldown asked for a deadline earlier than
\* the one in force, which stayed
ShorterCooldownIgnored ==
    last_asked # 0 /\ last_asked < cooldown_until

\* C20: the mock values of any ticker are ordered S2 < S1 < Pivot < R1 < R2,
\* both supports are below and both resistances above Bollinger_middle, and
\* Bollinger_lower < Bollinger_middle < Bollinger_upper.
MockValuesConsistent ==
    mock_done =>
        LET v(key) == mock_out[key].v
        IN  /\ \A key \in IndicatorKeys : mock_out[key].k = "num"
            /\ v("Woodies_S2") < v("Woodies_S1")
            /\ v("Woodies_S1") < v("Woodies_Pivot")
            /\ v("Woodies_Pivot") < v("Woodies_R1")
            /\ v("Woodies_R1") < v("Woodies_R2")
            /\ v("Woodies_S1") < v("Bollinger_middle")
            /\ v("Woodies_S2") < v("Bollinger_middle")
            /\ v("Woodies_R1") > v("Bollinger_middle")
            /\ v("Woodies_R2") > v("Bollinger_middle")
            /\ v("Bollinger_lower") < v("Bollinger_middle")
            /\ v("Bollinger_middle") < v("Bollinger_upper")

\* C20 witness: a ticker whose hash puts the two supports as close as they
\* get, five apart
ClosestMockLevels ==
    /\ mock_done
    /\ mock_out["Woodies_S1"].v - mock_out["Woodies_S2"].v = 50

\* C21: within one call of _extract_with_requests an attempt that follows a
\* failed one, a 403 among them, takes its headers from another pool
\* position than the attempt before it, and the call hands over to the
\* next strategy only when all max_retries attempts have been made.
RotateBeforeEscalating ==
    [][/\ (pc = "requests" /\ pc' = "requests") =>
             (attempt' = attempt + 1 /\ current_header_profile' # current_header_profile)
       /\ (pc = "requests" /\ pc' \in {"selenium_403", "selenium"}) =>
             attempt' = max_retries]_vars

\* C21 witness: the first item's three attempts, from pool positions 0, 1
\* and 2, were each answered 403, and the call is handing over to Selenium
ThreeTimes403 ==
    /\ pc = "selenium_403"
    /\ i = 1
    /\ attempt = max_retries
    /\ current_header_profile = max_retries

\* an item is being fetched
InItem == pc \in {"requests", "selenium_403", "selenium"}

BrowserOnlyAfterReachabilityCheck == sessions > 0 => ReachabilityChecked

RECURSIVE GetsThrough(_)
GetsThrough(n) == IF n = 0 THEN 0 ELSE GetsThrough(n - 1) + trace[n].gets

\* the calls of _get_headers so far: one per GET, the unfinished item included
HeaderCalls == GetsThrough(Len(trace)) + (IF Len(trace) < i THEN attempt ELSE 0)

\* C25: the rotation index stays within the pool and equals the number of
\* calls of _get_headers modulo the pool size, now and at the end of every
\* item, so call number n (from 0) took pool entry n mod P.
RoundRobinHeaders ==
    /\ current_header_profile \in 0..(Len(header_profiles) - 1)
    /\ current_header_profile = HeaderCalls % Len(header_profiles)
    /\ \A n \in 1..Len(trace) :
         trace[n].header = GetsThrough(n) % Len(header_profiles)

\* as many calls as the pool has entries: the rotation is back at its start
RotationWrapped ==
    /\ HeaderCalls = Len(header_profiles)
    /\ current_header_profile = 0

\* C26: the output table is read in one place, passed once and before the
\* first item; the file is written by one step only, after every row has its
\* record, and at most once; a run that has not written has left it as it was.
SingleReadSingleWrite ==
    /\ [](~written => out_file = pre_file)
    /\ [][/\ pc' = "backup" => pc = "start"
          /\ pc = "backup" => (i = 0 /\ results = << >> /\ ~written)
          /\ (written' # written \/ out_file' # out_file) =>
                /\ pc = "write"
                /\ ~written /\ written'
                /\ i = Len(url_file.rows)
                /\ Len(results) = Len(url_file.rows)]_vars

\* a run that read the existing table, worked through two items and wrote
ReadOnceWroteOnce ==
    /\ pc = "done" /\ ret = "True"
    /\ backup_made /\ written
    /\ Len(results) = MaxItems

\* C27: within one item _extract_with_selenium is called at most once: the
\* call _extract_with_requests makes after its third 403 is never followed by
\* the call in the else branch of extract_indicators_for_ticker.
SeleniumOncePerItem == [][pc = "selenium_403" => pc' # "selenium"]_vars

\* C28: every indicator of the returned record depends on its own token
\* alone: the value of its token when that converts, 'N/A' when it is absent
\* or does not convert, and the row of the pivot table for a pivot level,
\* whatever the tokens of the other indicators are.
IndicatorsIndependent ==
    parse_done =>
        /\ \A key \in BeforeVolume \cup AfterVolume :
             parse_out[key] = _extract_numeric_value(parse_in.toks[key])
        /\ parse_out["Volume_daily"] = VolumeValue(parse_in.toks["Volume_daily"])[2]
        /\ \A key \in DOMAIN parse_in.pivots :
             parse_out[key] = Num(parse_in.pivots[key])

\* C29: at most one run_stock_fetcher_async thread is executing at any
\* moment, whatever the interleaving of the /run requests and the jobs.
OneFetchJobAtATime == Cardinality(Executing) <= 1

\* C30: the data a call of get_cached_sentiment_for_tickers returns was
\* computed no more than ttl_minutes before the call returns.
SentimentFresh ==
    sentiment_returned.set =>
        sentiment_returned.at - sentiment_returned.computed_at <= ttl_minutes

====
